---- MODULE Spec2Model ----
(***************************************************************************)
(* The SKU allocation layer of the tutorial server (tutor3/db.go, and the  *)
(* identical tutor4/db): clients of one Firestore database that create,    *)
(* update and delete items.  AddItem draws a UUID, then runs a transaction *)
(* that reads the counter document Next$SKU, stages the counter + 1 and    *)
(* the creation of the item, and commits.  The store is optimistic: a      *)
(* commit whose read of the counter is stale is aborted and the            *)
(* transaction body is run again; a commit whose create finds the document *)
(* present fails with AlreadyExists.                                       *)
(***************************************************************************)
EXTENDS Integers, Sequences, FiniteSets

\* ---------------------------------------------------------------- bounds
NumClients == 2      \* clients (processes) sharing the database
MaxCalls == 3        \* calls (AddItem, UpdateItem, DeleteItem) started in one behaviour
MaxAttempts == 2     \* runs of a transaction body before RunTransaction gives up

\* ------------------------------------------------------- program constants
startSKU == 1000

\* ------------------------------------------------------------ input sets
Clients == 1..NumClients
IDs == {"a", "b"}                 \* the values uuid.New().String() may yield
AddNames == {"spoon"}             \* the name of an item passed to AddItem
AddSKUs == {0}                    \* ... and its SKU field
Names == {"spoon", "spork"}       \* the name of an item passed to UpdateItem
SKUInputs == {0, startSKU}        \* ... and its SKU field

VARIABLES
    counter,    \* the document util/Next$SKU
    data,       \* the data collection: document key -> document
    pc,         \* each client's position
    item,       \* the caller's *Item: of the AddItem or UpdateItem in progress,
                \* or as the last AddItem left it
    item0,      \* the caller's item as it was when AddItem was called
    ref,        \* the document ref captured by the closure of create
    txRead,     \* update time of the counter as read by the transaction
    txNext,     \* the local `next` of the transaction body
    txDoc,      \* the document staged by tx.Create
    attempts,   \* runs of the transaction body in this RunTransaction
    txErr,      \* the error create last returned to AddItem ("nil" while a
                \* transaction is in progress)
    res,        \* what the last finished call returned
    log,        \* history: the committed AddItem transactions, in commit order
    nCalls,     \* calls started
    mock,       \* the mockDB behind the app of the handler tests
    resp        \* what the last request or query observed from outside returned

\* the variables of the clients and their database
dbVars == <<counter, data, pc, item, item0, ref, txRead, txNext, txDoc,
            attempts, txErr, res, log, nCalls>>

\* the variables of the app under test
webVars == <<mock, resp>>

vars == <<dbVars, webVars>>

\* ------------------------------------------------------------- documents
Item(id, name, sku) == [ID |-> id, Name |-> name, SKU |-> sku]

NoItem == Item("", "", 0)

\* bad: the fields do not decode into an Item (doc.DataTo fails)
Absent == [exists |-> FALSE, id |-> "", name |-> "", sku |-> 0, bad |-> FALSE]

\* the fields written for an Item (struct tags id, name, sku)
ToDoc(i) ==
    [exists |-> TRUE, id |-> i.ID, name |-> i.Name, sku |-> i.SKU, bad |-> FALSE]

NoCounter == [exists |-> FALSE, hasNext |-> FALSE, isInt |-> FALSE, next |-> 0,
              ver |-> 0]

BadCounter == [exists |-> TRUE, hasNext |-> TRUE, isInt |-> FALSE, next |-> 0,
               ver |-> 1]

\* a counter document that has no field "next"
EmptyCounter == [BadCounter EXCEPT !.hasNext = FALSE]

NoRes == [op |-> "none", id |-> "", err |-> "nil"]

Max(S) == CHOOSE x \in S : \A y \in S : y <= x

Digits == <<"0", "1", "2", "3", "4", "5", "6", "7", "8", "9">>

\* strconv.Itoa
RECURSIVE Itoa(_)
Itoa(n) ==
    IF n < 0 THEN "-" \o Itoa(-n)
    ELSE IF n < 10 THEN Digits[n + 1]
    ELSE Itoa(n \div 10) \o Digits[(n % 10) + 1]

\* errors are kept by what errors.Is can see in them: "errNotFound" is an
\* error wrapping errNotFound (%w), "other" one that does not
NoOut == [item |-> NoItem, err |-> "nil"]

\* ----------------------------------------------------------------- mockDB
\* The mock database of the handler tests: a Go map of items, the next SKU
\* and a switch that makes every method fail.  It is not thread-safe and is
\* used by one test at a time, so each method is one step.
\* the number of requests served in a run
MaxRequests == 3

mockStart == 1000

PreloadCount == 9

\* the identifiers uuid.New() may yield in a test, and the n-th of them
MaxUUIDs == PreloadCount + MaxRequests

UUID(n) == "u" \o Itoa(n)

UUIDs == {UUID(n) : n \in 1..MaxUUIDs}

EmptyMap == [k \in {} |-> NoItem]

\* m[k] = v and delete(m, k) on a Go map
Put(m, k, v) == [x \in DOMAIN m \cup {k} |-> IF x = k THEN v ELSE m[x]]

Remove(m, k) == [x \in DOMAIN m \ {k} |-> m[x]]

\* new(mockDB) and &mockDB{fail: true}.  adds and touched are history: the
\* items ever added, and whether UpdateItem has stored an item.
NewMock(fail) ==
    [isNil |-> TRUE, data |-> EmptyMap, next |-> 0, fail |-> fail,
     adds |-> 0, touched |-> FALSE]

\* faulty variant of MakeData: the SKUs start again whenever the map is empty
MakeDataWhenEmpty(m) ==
    IF m.isNil \/ DOMAIN m.data = {}
      THEN [m EXCEPT !.isNil = FALSE, !.data = EmptyMap, !.next = mockStart]
      ELSE m

\* if m.data == nil { m.data = make(map[string]*Item); m.next = 1000 }
MakeData(m) ==
    IF m.isNil
      THEN [m EXCEPT !.isNil = FALSE, !.data = EmptyMap, !.next = mockStart]
      ELSE m

\* i.SKU = m.next; m.data[i.ID] = i; m.next++
Store(m, id, name) ==
    [m EXCEPT !.data = Put(@, id, Item(id, name, m.next)),
              !.next = @ + 1,
              !.adds = @ + 1]

\* mockDB.AddItem; id is the identifier the loop at the label ends with, one
\* that is not a key of the map
mockDB_AddItem(m, i, id) ==
    IF m.fail THEN [mock |-> m, id |-> "", err |-> "errShouldFail"]
    ELSE IF ~m.isNil /\ i.ID # "" THEN [mock |-> m, id |-> "", err |-> "errInvalid"]
    ELSE [mock |-> Store(MakeData(m), id, i.Name), id |-> id, err |-> "nil"]

mockDB_GetItem(m, id) ==
    IF m.fail THEN [NoOut EXCEPT !.err = "errShouldFail"]
    ELSE IF id \in DOMAIN m.data THEN [NoOut EXCEPT !.item = m.data[id]]
    ELSE [NoOut EXCEPT !.err = "errNotFound"]

\* the range over the map has no fixed order: any item with the SKU
mockDB_GetItemBySKU(m, sku) ==
    LET hits == {id \in DOMAIN m.data : m.data[id].SKU = sku} IN
      IF m.fail THEN [items |-> {}, err |-> "errShouldFail"]
      ELSE IF hits # {} THEN [items |-> {m.data[id] : id \in hits}, err |-> "nil"]
      ELSE [items |-> {}, err |-> "errNotFound"]

\* the items of the list, in no fixed order
mockDB_ListItems(m) ==
    IF m.fail THEN [items |-> {}, err |-> "errShouldFail"]
    ELSE [items |-> {m.data[id] : id \in DOMAIN m.data}, err |-> "nil"]

\* the keys of the map returned
mockDB_ListSKUs(m) ==
    IF m.fail THEN [skus |-> {}, err |-> "errShouldFail"]
    ELSE [skus |-> {Itoa(m.data[id].SKU) : id \in DOMAIN m.data}, err |-> "nil"]

mockDB_UpdateItem(m, i) ==
    IF m.fail THEN [mock |-> m, err |-> "errShouldFail"]
    ELSE IF m.isNil THEN [mock |-> m, err |-> "errInvalid"]
    ELSE [mock |-> [m EXCEPT !.data = Put(@, i.ID, i), !.touched = TRUE],
          err |-> "nil"]

mockDB_DeleteItem(m, id) ==
    IF m.fail THEN [mock |-> m, err |-> "errShouldFail"]
    ELSE IF m.isNil THEN [mock |-> m, err |-> "errInvalid"]
    ELSE [mock |-> [m EXCEPT !.data = Remove(@, id)], err |-> "nil"]

\* an identifier that is not a key of the map (the first of them)
Fresh(m) ==
    UUID(CHOOSE n \in 1..MaxUUIDs :
           /\ UUID(n) \notin DOMAIN m.data
           /\ \A k \in 1..(n - 1) : UUID(k) \in DOMAIN m.data)

\* the loop of preload from its i-th round on.  Each round draws an
\* identifier that is new or, once in a preload (again = FALSE afterwards),
\* one drawn before: preload stores without looking.
RECURSIVE PreloadFrom(_, _, _)
PreloadFrom(m, i, again) ==
    IF i > PreloadCount THEN {m}
    ELSE LET name == "item-" \o Itoa(i) IN
         PreloadFrom(Store(m, Fresh(m), name), i + 1, again)
           \cup IF again
                  THEN UNION {PreloadFrom(Store(m, id, name), i + 1, FALSE) :
                                id \in DOMAIN m.data}
                  ELSE {}

\* mockDB.preload: the mocks it may leave
mockDB_preload(m) == PreloadFrom(MakeData(m), 1, TRUE)

\* ------------------------------------------------------------------ Init
\* no call is in progress
Idle ==
    /\ pc = [p \in Clients |-> "new"]
    /\ item = [p \in Clients |-> NoItem]
    /\ item0 = [p \in Clients |-> NoItem]
    /\ ref = [p \in Clients |-> ""]
    /\ txRead = [p \in Clients |-> 0]
    /\ txNext = [p \in Clients |-> 0]
    /\ txDoc = [p \in Clients |-> Absent]
    /\ attempts = [p \in Clients |-> 0]
    /\ txErr = [p \in Clients |-> "nil"]
    /\ res = [p \in Clients |-> NoRes]
    /\ log = <<>>
    /\ nCalls = 0

\* nothing served yet.  n counts the requests served; err is the error of the
\* database call the handler made ("none" when it made none)
NoResp ==
    [n |-> 0, op |-> "none", name |-> "-", err |-> "none", status |-> 0,
     location |-> FALSE, body |-> <<>>]

Init ==
    /\ counter \in {NoCounter, BadCounter, EmptyCounter}
    /\ data = [k \in IDs |-> Absent]
    /\ mock = NewMock(FALSE)
    /\ resp = NoResp
    /\ Idle

\* -------------------------------------------------------------- startSKU
\* faulty variant of StartSKURead: the shape of an existing counter document is
\* not validated
StartSKUReadLenient(p) ==
    /\ pc[p] = "new"
    /\ IF ~counter.exists
         THEN /\ pc' = [pc EXCEPT ![p] = "start_commit"]
              /\ txRead' = [txRead EXCEPT ![p] = counter.ver]
              /\ res' = res
         ELSE /\ pc' = [pc EXCEPT ![p] = "idle"]
              /\ res' = [res EXCEPT ![p] = [op |-> "new", id |-> "", err |-> "nil"]]
              /\ txRead' = txRead
    /\ UNCHANGED <<counter, data, item, item0, ref, txNext, txDoc, attempts,
                   txErr, log, nCalls>>
    /\ UNCHANGED webVars

\* NewClient -> startSKU: the transaction body reads the counter document.
StartSKURead(p) ==
    /\ pc[p] = "new"
    /\ IF ~counter.exists
         THEN /\ pc' = [pc EXCEPT ![p] = "start_commit"]
              /\ txRead' = [txRead EXCEPT ![p] = counter.ver]
              /\ res' = res
         ELSE IF counter.isInt
         THEN /\ pc' = [pc EXCEPT ![p] = "idle"]
              /\ res' = [res EXCEPT ![p] = [op |-> "new", id |-> "", err |-> "nil"]]
              /\ txRead' = txRead
         ELSE /\ pc' = [pc EXCEPT ![p] = "noclient"]
              /\ res' = [res EXCEPT ![p] =
                           [op |-> "new", id |-> "",
                            err |-> IF counter.hasNext THEN "CantRead"
                                                       ELSE "NoField"]]
              /\ txRead' = txRead
    /\ UNCHANGED <<counter, data, item, item0, ref, txNext, txDoc, attempts,
                   txErr, log, nCalls>>
    /\ UNCHANGED webVars

\* faulty variant of StartSKUCreate: the seed is staged with tx.Set, which
\* commits over a document created in the meantime
StartSKUSet(p) ==
    /\ pc[p] = "start_commit"
    /\ counter' = [exists |-> TRUE, hasNext |-> TRUE, isInt |-> TRUE,
                   next |-> startSKU, ver |-> counter.ver + 1]
    /\ pc' = [pc EXCEPT ![p] = "idle"]
    /\ res' = [res EXCEPT ![p] = [op |-> "new", id |-> "", err |-> "nil"]]
    /\ UNCHANGED <<data, item, item0, ref, txRead, txNext, txDoc, attempts,
                   txErr, log, nCalls>>
    /\ UNCHANGED webVars

\* the staged tx.Create of the counter commits: the document is still absent
StartSKUCreate(p) ==
    /\ pc[p] = "start_commit"
    /\ ~counter.exists
    /\ counter' = [exists |-> TRUE, hasNext |-> TRUE, isInt |-> TRUE,
                   next |-> startSKU,
                   ver |-> counter.ver + 1]
    /\ pc' = [pc EXCEPT ![p] = "idle"]
    /\ res' = [res EXCEPT ![p] = [op |-> "new", id |-> "", err |-> "nil"]]
    /\ UNCHANGED <<data, item, item0, ref, txRead, txNext, txDoc, attempts,
                   txErr, log, nCalls>>
    /\ UNCHANGED webVars

\* faulty variant of StartSKUConflict: the stale read goes unnoticed and the
\* seed is written over the counter
StartSKUConflictIgnored(p) ==
    /\ pc[p] = "start_commit"
    /\ counter.exists
    /\ counter' = [counter EXCEPT !.next = startSKU, !.ver = @ + 1]
    /\ pc' = [pc EXCEPT ![p] = "idle"]
    /\ res' = [res EXCEPT ![p] = [op |-> "new", id |-> "", err |-> "nil"]]
    /\ UNCHANGED <<data, item, item0, ref, txRead, txNext, txDoc, attempts,
                   txErr, log, nCalls>>
    /\ UNCHANGED webVars

\* another client created the counter first: the store aborts the commit and
\* runs the body again
StartSKUConflict(p) ==
    /\ pc[p] = "start_commit"
    /\ counter.exists
    /\ pc' = [pc EXCEPT ![p] = "new"]
    /\ UNCHANGED <<counter, data, item, item0, ref, txRead, txNext, txDoc,
                   attempts, txErr, res, log, nCalls>>
    /\ UNCHANGED webVars

\* ... or the store reports the failed precondition of tx.Create, and NewClient
\* returns the error
StartSKUExists(p) ==
    /\ pc[p] = "start_commit"
    /\ counter.exists
    /\ pc' = [pc EXCEPT ![p] = "noclient"]
    /\ res' = [res EXCEPT ![p] = [op |-> "new", id |-> "", err |-> "AlreadyExists"]]
    /\ UNCHANGED <<counter, data, item, item0, ref, txRead, txNext, txDoc,
                   attempts, txErr, log, nCalls>>
    /\ UNCHANGED webVars

\* ---------------------------------------------------------------- getNext
\* getNext: the counter as read through the transaction
getNext(cnt) ==
    IF ~cnt.exists THEN [err |-> "NotFound", val |-> 0]
    ELSE IF ~cnt.hasNext THEN [err |-> "NoField", val |-> 0]
    ELSE IF ~cnt.isInt THEN [err |-> "CantRead", val |-> 0]
    ELSE [err |-> "nil", val |-> cnt.next]

\* faulty variants of NextUpdate: the counter is written back unchanged, or
\* advanced by two
NextUpdateSame(next) == next

NextUpdateSkips(next) == next + 2

\* faulty variant of NextUpdate: the counter counts down
NextUpdateDown(next) == next - 1

\* the value create stages for the counter
NextUpdate(next) == next + 1

\* faulty variant of Conflict: the counter is read outside the transaction
\* (docRef.Get), so the store never sees a stale read
ConflictNever(p) == FALSE

\* The counter was read with tx.Get, so the store validates the read at commit:
\* the commit is aborted when the counter was written after the read.
Conflict(p) == counter.ver # txRead[p]

\* faulty variant of CreateFails: tx.Set in place of tx.Create
CreateNeverFails(id) == FALSE

\* tx.Create carries the precondition that the document does not exist
CreateFails(id) == data[id].exists

\* faulty variant of Rollback: the counter update is written outside the
\* transaction, so it survives a failed commit
RollbackKeepsCounter(p) ==
    /\ counter' = IF pc[p] = "add_commit"
                    THEN [counter EXCEPT !.next = NextUpdate(txNext[p]),
                                         !.ver = @ + 1]
                    ELSE counter
    /\ UNCHANGED <<data, log>>

\* a transaction that does not commit applies none of its staged writes
Rollback(p) == UNCHANGED <<counter, data, log>>

EndTx(p) ==
    /\ txRead' = [txRead EXCEPT ![p] = 0]
    /\ txNext' = [txNext EXCEPT ![p] = 0]
    /\ txDoc' = [txDoc EXCEPT ![p] = Absent]

\* --------------------------------------------------------------- AddItem
\* AddItem is called with the caller's item: it draws a UUID, writes it into
\* the item and calls create
AddItem(p, name, sku) ==
    /\ pc[p] = "idle"
    /\ nCalls < MaxCalls
    /\ \E id \in IDs :
         /\ item' = [item EXCEPT ![p] = Item(id, name, sku)]
         /\ ref' = [ref EXCEPT ![p] = id]
    /\ item0' = [item0 EXCEPT ![p] = Item("", name, sku)]
    /\ attempts' = [attempts EXCEPT ![p] = 0]
    /\ txErr' = [txErr EXCEPT ![p] = "nil"]
    /\ pc' = [pc EXCEPT ![p] = "add_body"]
    /\ nCalls' = nCalls + 1
    /\ UNCHANGED <<counter, data, txRead, txNext, txDoc, res, log>>
    /\ UNCHANGED webVars

\* faulty variant of AddItemReturn: AlreadyExists is returned to the caller
AddItemReturnSurfaces(p, err) ==
    /\ txErr' = [txErr EXCEPT ![p] = err]
    /\ attempts' = [attempts EXCEPT ![p] = 0]
    /\ res' = [res EXCEPT ![p] =
                  [op |-> "add",
                   id |-> IF err = "nil" THEN item[p].ID ELSE "",
                   err |-> err]]
    /\ pc' = [pc EXCEPT ![p] = "idle"]
    /\ UNCHANGED <<item, ref>>

\* faulty variant of AddItemReturn: goto add on every error
AddItemReturnRetriesAll(p, err) ==
    /\ txErr' = [txErr EXCEPT ![p] = err]
    /\ attempts' = [attempts EXCEPT ![p] = 0]
    /\ IF err # "nil"
         THEN /\ \E id \in IDs :
                   /\ item' = [item EXCEPT ![p].ID = id]
                   /\ ref' = [ref EXCEPT ![p] = id]
              /\ pc' = [pc EXCEPT ![p] = "add_body"]
              /\ res' = res
         ELSE /\ res' = [res EXCEPT ![p] =
                           [op |-> "add", id |-> item[p].ID, err |-> err]]
              /\ pc' = [pc EXCEPT ![p] = "idle"]
              /\ UNCHANGED <<item, ref>>

\* create has returned err to AddItem: on AlreadyExists goto add (a new UUID
\* and a new RunTransaction), on another error return ("", err), else the id
AddItemReturn(p, err) ==
    /\ txErr' = [txErr EXCEPT ![p] = err]
    /\ attempts' = [attempts EXCEPT ![p] = 0]
    /\ IF err = "AlreadyExists"
         THEN /\ \E id \in IDs :
                   /\ item' = [item EXCEPT ![p].ID = id]
                   /\ ref' = [ref EXCEPT ![p] = id]
              /\ pc' = [pc EXCEPT ![p] = "add_body"]
              /\ res' = res
         ELSE /\ res' = [res EXCEPT ![p] =
                           [op |-> "add",
                            id |-> IF err = "nil" THEN item[p].ID ELSE "",
                            err |-> err]]
              /\ pc' = [pc EXCEPT ![p] = "idle"]
              /\ UNCHANGED <<item, ref>>

\* the operations one run of the closure of create issues on the transaction,
\* in program order
TxGet == [op |-> "Get", doc |-> "counter"]

TxUpdate == [op |-> "Update", doc |-> "counter"]

TxCreate(doc) == [op |-> "Create", doc |-> doc]

\* faulty variant of createOps: the item is created before the counter is read
createOpsInsertFirst(cnt) ==
    IF getNext(cnt).err # "nil" THEN <<TxCreate("item"), TxGet>>
    ELSE <<TxCreate("item"), TxGet, TxUpdate>>

createOps(cnt) ==
    IF getNext(cnt).err # "nil" THEN <<TxGet>>
    ELSE <<TxGet, TxUpdate, TxCreate("item")>>

\* ... and one run of the closure of startSKU
startSKUOps(cnt) ==
    IF ~cnt.exists THEN <<TxGet, TxCreate("counter")>>
    ELSE <<TxGet>>

\* faulty variant of TxBody: item.SKU is set only while it is still zero, so a
\* re-run of the body keeps the SKU of the aborted attempt
TxBodyKeepsFirstRead(p) ==
    /\ pc[p] = "add_body"
    /\ LET r == getNext(counter) IN
       IF r.err = "nil"
         THEN /\ item' = [item EXCEPT ![p].SKU = IF @ = 0 THEN r.val ELSE @]
              /\ txRead' = [txRead EXCEPT ![p] = counter.ver]
              /\ txNext' = [txNext EXCEPT ![p] = r.val]
              /\ txDoc' = [txDoc EXCEPT ![p] = ToDoc(item'[p])]
              /\ attempts' = [attempts EXCEPT ![p] = @ + 1]
              /\ pc' = [pc EXCEPT ![p] = "add_commit"]
              /\ txErr' = [txErr EXCEPT ![p] = "nil"]
              /\ UNCHANGED <<ref, res>>
         ELSE /\ AddItemReturn(p, r.err)
              /\ UNCHANGED <<txRead, txNext, txDoc>>
    /\ UNCHANGED <<counter, data, item0, log, nCalls>>
    /\ UNCHANGED webVars

\* one run of the closure of create: getNext, item.SKU = next, tx.Update of
\* the counter, tx.Create of the item (both staged until commit); an error of
\* getNext is returned by the closure and by RunTransaction
TxBody(p) ==
    /\ pc[p] = "add_body"
    /\ LET r == getNext(counter) IN
       IF r.err = "nil"
         THEN /\ item' = [item EXCEPT ![p].SKU = r.val]
              /\ txRead' = [txRead EXCEPT ![p] = counter.ver]
              /\ txNext' = [txNext EXCEPT ![p] = r.val]
              /\ txDoc' = [txDoc EXCEPT ![p] = ToDoc(item'[p])]
              /\ attempts' = [attempts EXCEPT ![p] = @ + 1]
              /\ pc' = [pc EXCEPT ![p] = "add_commit"]
              /\ txErr' = [txErr EXCEPT ![p] = "nil"]
              /\ UNCHANGED <<ref, res>>
         ELSE /\ AddItemReturn(p, r.err)
              /\ UNCHANGED <<txRead, txNext, txDoc>>
    /\ UNCHANGED <<counter, data, item0, log, nCalls>>
    /\ UNCHANGED webVars

\* tx.Get fails (the store is unavailable): the closure returns the error and
\* RunTransaction returns it
TxGetFails(p) ==
    /\ pc[p] = "add_body"
    /\ Rollback(p)
    /\ AddItemReturn(p, "Unavailable")
    /\ UNCHANGED <<item0, txRead, txNext, txDoc, nCalls>>
    /\ UNCHANGED webVars

\* the commit succeeds: counter update and item creation are applied together
TxCommit(p) ==
    /\ pc[p] = "add_commit"
    /\ ~Conflict(p)
    /\ ~CreateFails(ref[p])
    /\ counter' = [counter EXCEPT !.next = NextUpdate(txNext[p]), !.ver = @ + 1]
    /\ data' = [data EXCEPT ![ref[p]] = txDoc[p]]
    /\ log' = Append(log, [id |-> ref[p], read |-> txNext[p],
                           sku |-> txDoc[p].sku, attempt |-> attempts[p]])
    /\ EndTx(p)
    /\ AddItemReturn(p, "nil")
    /\ UNCHANGED <<item0, nCalls>>
    /\ UNCHANGED webVars

\* faulty variant of TxConflict: the UUID is drawn inside the closure, so a
\* re-run of the body uses another document ref
TxConflictNewID(p) ==
    /\ pc[p] = "add_commit"
    /\ Conflict(p)
    /\ Rollback(p)
    /\ EndTx(p)
    /\ IF attempts[p] < MaxAttempts
         THEN /\ pc' = [pc EXCEPT ![p] = "add_body"]
              /\ \E id \in IDs :
                   /\ item' = [item EXCEPT ![p].ID = id]
                   /\ ref' = [ref EXCEPT ![p] = id]
              /\ UNCHANGED <<attempts, txErr, res>>
         ELSE AddItemReturn(p, "Aborted")
    /\ UNCHANGED <<item0, nCalls>>
    /\ UNCHANGED webVars

\* the counter was written since this transaction read it: the store aborts
\* the commit and RunTransaction runs the closure again, with the same ref,
\* or gives up after MaxAttempts runs and returns Aborted
TxConflict(p) ==
    /\ pc[p] = "add_commit"
    /\ Conflict(p)
    /\ Rollback(p)
    /\ EndTx(p)
    /\ IF attempts[p] < MaxAttempts
         THEN /\ pc' = [pc EXCEPT ![p] = "add_body"]
              /\ UNCHANGED <<item, ref, attempts, txErr, res>>
         ELSE AddItemReturn(p, "Aborted")
    /\ UNCHANGED <<item0, nCalls>>
    /\ UNCHANGED webVars

\* faulty variant of TxAlreadyExists: the UUID is drawn once, before the label,
\* so the retry runs create with the identifier that collided
TxAlreadyExistsSameID(p) ==
    /\ pc[p] = "add_commit"
    /\ CreateFails(ref[p])
    /\ Rollback(p)
    /\ EndTx(p)
    /\ txErr' = [txErr EXCEPT ![p] = "AlreadyExists"]
    /\ attempts' = [attempts EXCEPT ![p] = 0]
    /\ pc' = [pc EXCEPT ![p] = "add_body"]
    /\ UNCHANGED <<item, ref, res, item0, nCalls>>
    /\ UNCHANGED webVars

\* the document named by ref exists: the commit fails with AlreadyExists
TxAlreadyExists(p) ==
    /\ pc[p] = "add_commit"
    /\ CreateFails(ref[p])
    /\ Rollback(p)
    /\ EndTx(p)
    /\ AddItemReturn(p, "AlreadyExists")
    /\ UNCHANGED <<item0, nCalls>>
    /\ UNCHANGED webVars

\* the context is cancelled before the commit is applied
TxCancelled(p) ==
    /\ pc[p] = "add_commit"
    /\ Rollback(p)
    /\ EndTx(p)
    /\ AddItemReturn(p, "Canceled")
    /\ UNCHANGED <<item0, nCalls>>
    /\ UNCHANGED webVars

\* ------------------------------------------------- UpdateItem, DeleteItem
\* UpdateItem: ref.Get to see whether the document exists
\* faulty variant of UpdateItem: no existence check, the write is a plain upsert
UpdateItemUpsert(p, i) ==
    /\ pc[p] = "idle"
    /\ nCalls < MaxCalls
    /\ nCalls' = nCalls + 1
    /\ item0' = [item0 EXCEPT ![p] = NoItem]
    /\ txErr' = [txErr EXCEPT ![p] = "nil"]
    /\ pc' = [pc EXCEPT ![p] = "upd_set"]
    /\ item' = [item EXCEPT ![p] = i]
    /\ res' = res
    /\ UNCHANGED <<counter, data, ref, txRead, txNext, txDoc, attempts, log>>
    /\ UNCHANGED webVars

UpdateItem(p, i) ==
    /\ pc[p] = "idle"
    /\ nCalls < MaxCalls
    /\ nCalls' = nCalls + 1
    /\ item0' = [item0 EXCEPT ![p] = NoItem]
    /\ txErr' = [txErr EXCEPT ![p] = "nil"]
    /\ IF data[i.ID].exists
         THEN /\ pc' = [pc EXCEPT ![p] = "upd_set"]
              /\ item' = [item EXCEPT ![p] = i]
              /\ res' = res
         ELSE /\ pc' = pc
              /\ item' = [item EXCEPT ![p] = NoItem]
              /\ res' = [res EXCEPT ![p] =
                           [op |-> "update", id |-> "", err |-> "errNotFound"]]
    /\ UNCHANGED <<counter, data, ref, txRead, txNext, txDoc, attempts, log>>
    /\ UNCHANGED webVars

\* faulty variant of UpdateItemSet: the update takes a fresh SKU from the counter
UpdateItemSetAllocates(p) ==
    /\ pc[p] = "upd_set"
    /\ data' = [data EXCEPT ![item[p].ID] =
                  [ToDoc(item[p]) EXCEPT !.sku = counter.next]]
    /\ counter' = [counter EXCEPT !.next = @ + 1, !.ver = @ + 1]
    /\ res' = [res EXCEPT ![p] = [op |-> "update", id |-> "", err |-> "nil"]]
    /\ item' = [item EXCEPT ![p] = NoItem]
    /\ pc' = [pc EXCEPT ![p] = "idle"]
    /\ UNCHANGED <<item0, ref, txRead, txNext, txDoc, attempts,
                   txErr, log, nCalls>>
    /\ UNCHANGED webVars

\* faulty variant of UpdateItemSet: the ID field is left out of the document
\* that is written
UpdateItemSetNoID(p) ==
    /\ pc[p] = "upd_set"
    /\ data' = [data EXCEPT ![item[p].ID] = [ToDoc(item[p]) EXCEPT !.id = ""]]
    /\ res' = [res EXCEPT ![p] = [op |-> "update", id |-> "", err |-> "nil"]]
    /\ item' = [item EXCEPT ![p] = NoItem]
    /\ pc' = [pc EXCEPT ![p] = "idle"]
    /\ UNCHANGED <<counter, item0, ref, txRead, txNext, txDoc, attempts,
                   txErr, log, nCalls>>
    /\ UNCHANGED webVars

\* UpdateItem: ref.Set writes the caller's item over the document
UpdateItemSet(p) ==
    /\ pc[p] = "upd_set"
    /\ data' = [data EXCEPT ![item[p].ID] = ToDoc(item[p])]
    /\ res' = [res EXCEPT ![p] = [op |-> "update", id |-> "", err |-> "nil"]]
    /\ item' = [item EXCEPT ![p] = NoItem]
    /\ pc' = [pc EXCEPT ![p] = "idle"]
    /\ UNCHANGED <<counter, item0, ref, txRead, txNext, txDoc, attempts,
                   txErr, log, nCalls>>
    /\ UNCHANGED webVars

\* faulty variant of DeleteItem: deleting the newest record hands its SKU back
\* to the counter
DeleteItemReleasesSKU(p, id) ==
    /\ pc[p] = "idle"
    /\ nCalls < MaxCalls
    /\ nCalls' = nCalls + 1
    /\ data' = [data EXCEPT ![id] = Absent]
    /\ counter' = IF data[id].exists /\ counter.isInt
                       /\ data[id].sku = counter.next - 1
                    THEN [counter EXCEPT !.next = @ - 1, !.ver = @ + 1]
                    ELSE counter
    /\ item' = [item EXCEPT ![p] = NoItem]
    /\ item0' = [item0 EXCEPT ![p] = NoItem]
    /\ txErr' = [txErr EXCEPT ![p] = "nil"]
    /\ res' = [res EXCEPT ![p] = [op |-> "delete", id |-> "", err |-> "nil"]]
    /\ UNCHANGED <<pc, ref, txRead, txNext, txDoc, attempts, log>>
    /\ UNCHANGED webVars

\* faulty variant of DeleteItem: the delete carries an exists precondition and
\* reports a missing document
DeleteItemStrict(p, id) ==
    /\ pc[p] = "idle"
    /\ nCalls < MaxCalls
    /\ nCalls' = nCalls + 1
    /\ data' = [data EXCEPT ![id] = Absent]
    /\ item' = [item EXCEPT ![p] = NoItem]
    /\ item0' = [item0 EXCEPT ![p] = NoItem]
    /\ txErr' = [txErr EXCEPT ![p] = "nil"]
    /\ res' = [res EXCEPT ![p] =
                 [op |-> "delete", id |-> "",
                  err |-> IF data[id].exists THEN "nil" ELSE "errNotFound"]]
    /\ UNCHANGED <<counter, pc, ref, txRead, txNext, txDoc, attempts, log>>
    /\ UNCHANGED webVars

\* DeleteItem: Doc(id).Delete, which succeeds whether or not the document exists
DeleteItem(p, id) ==
    /\ pc[p] = "idle"
    /\ nCalls < MaxCalls
    /\ nCalls' = nCalls + 1
    /\ data' = [data EXCEPT ![id] = Absent]
    /\ item' = [item EXCEPT ![p] = NoItem]
    /\ item0' = [item0 EXCEPT ![p] = NoItem]
    /\ txErr' = [txErr EXCEPT ![p] = "nil"]
    /\ res' = [res EXCEPT ![p] = [op |-> "delete", id |-> "", err |-> "nil"]]
    /\ UNCHANGED <<counter, pc, ref, txRead, txNext, txDoc, attempts, log>>
    /\ UNCHANGED webVars

\* --------------------------------------------------------------- queries
\* The read operations issue only Get / query calls and write nothing: a call
\* is a step that leaves every variable as it is (a stuttering step, which
\* Spec allows in every state), and what it returns is a function of the data
\* collection at the time of the call. They are given as operators on the
\* data collection, to be evaluated in every reachable state.

\* document ids in the ascending order of firestore.DocumentID, the order in
\* which a query without OrderBy returns its matches as well
IDOrder == <<"a", "b">>

Rank(id) == CHOOSE k \in 1..Len(IDOrder) : IDOrder[k] = id

\* doc.DataTo(&i): the Item decoded from a stored document
FromDoc(d) == Item(d.id, d.name, d.sku)

\* faulty variant of GetItem: the not-found error is formatted, not wrapped
GetItemOpaque(d, id) ==
    IF ~d[id].exists
      THEN [NoOut EXCEPT !.err = "other"]
      ELSE [NoOut EXCEPT !.item = FromDoc(d[id])]

GetItem(d, id) ==
    IF ~d[id].exists
      THEN [NoOut EXCEPT !.err = "errNotFound"]
    ELSE IF d[id].bad
      THEN [NoOut EXCEPT !.err = "other"]
      ELSE [NoOut EXCEPT !.item = FromDoc(d[id])]

\* faulty variant of GetItemBySKU: the query compares with <= instead of ==
GetItemBySKUAtMost(d, sku) ==
    LET Where(id) == d[id].exists /\ d[id].sku <= sku
        docs == SelectSeq(IDOrder, Where)
    IN  IF Len(docs) = 0
          THEN [NoOut EXCEPT !.err = "errNotFound"]
          ELSE [NoOut EXCEPT !.item = FromDoc(d[docs[1]])]

\* faulty variant of GetItemBySKU: more than one match is reported as an error
GetItemBySKUUnique(d, sku) ==
    LET Where(id) == d[id].exists /\ d[id].sku = sku
        docs == SelectSeq(IDOrder, Where)
    IN  IF Len(docs) = 0
          THEN [NoOut EXCEPT !.err = "errNotFound"]
        ELSE IF Len(docs) > 1
          THEN [NoOut EXCEPT !.err = "other"]
          ELSE [NoOut EXCEPT !.item = FromDoc(d[docs[1]])]

GetItemBySKU(d, sku) ==
    LET Where(id) == d[id].exists /\ d[id].sku = sku
        docs == SelectSeq(IDOrder, Where)
    IN  IF Len(docs) = 0
          THEN [NoOut EXCEPT !.err = "errNotFound"]
        ELSE IF d[docs[1]].bad
          THEN [NoOut EXCEPT !.err = "other"]
          ELSE [NoOut EXCEPT !.item = FromDoc(d[docs[1]])]

\* faulty variant of ListItems: the query orders by firestore.Desc
ListItemsDesc(d) ==
    LET All(id) == d[id].exists
        asc == SelectSeq(IDOrder, All)
        docs == [k \in 1..Len(asc) |-> asc[Len(asc) + 1 - k]]
    IN  [items |-> [k \in 1..Len(docs) |-> FromDoc(d[docs[k]])], err |-> "nil"]

\* faulty variant of ListItems: a document that does not decode ends the call
ListItemsStrict(d) ==
    LET All(id) == d[id].exists
        Bad(id) == d[id].bad
        docs == SelectSeq(IDOrder, All)
    IN  IF SelectSeq(docs, Bad) # <<>>
          THEN [items |-> <<>>, err |-> "other"]
          ELSE [items |-> [k \in 1..Len(docs) |-> FromDoc(d[docs[k]])],
                err |-> "nil"]

\* the loop appends the documents that decode and continues past the others
ListItems(d) ==
    LET All(id) == d[id].exists
        Decodes(id) == ~d[id].bad
        docs == SelectSeq(SelectSeq(IDOrder, All), Decodes)
    IN  [items |-> [k \in 1..Len(docs) |-> FromDoc(d[docs[k]])], err |-> "nil"]

\* OrderBy("sku", Asc): the stored ids by SKU, equal SKUs by document id
RECURSIVE OrderBySKU(_, _)
OrderBySKU(d, S) ==
    IF S = {} THEN <<>>
    ELSE LET m == CHOOSE x \in S : \A y \in S :
                    \/ d[x].sku < d[y].sku
                    \/ d[x].sku = d[y].sku /\ Rank(x) <= Rank(y)
         IN  <<m>> \o OrderBySKU(d, S \ {m})

\* the loop of ListSKUs: result[strconv.Itoa(i.SKU)] = i.ID, document by document
RECURSIVE FillSKUs(_, _, _)
FillSKUs(d, docs, result) ==
    IF docs = <<>> THEN result
    ELSE IF d[Head(docs)].bad THEN FillSKUs(d, Tail(docs), result)
    ELSE LET i == FromDoc(d[Head(docs)])
             sku == Itoa(i.SKU)
         IN  FillSKUs(d, Tail(docs),
                      [k \in DOMAIN result \cup {sku} |->
                         IF k = sku THEN i.ID ELSE result[k]])

ListSKUs(d) ==
    [skus |-> FillSKUs(d, OrderBySKU(d, {id \in IDs : d[id].exists}),
                       [k \in {} |-> ""]),
     err |-> "nil"]

\* the SKUs asked for: those a caller may have written, those AddItem assigns
SKUQueries == SKUInputs \cup {startSKU + 1, startSKU + 2}

\* a client that NewClient returned, to make the call
HasClient == {p \in Clients : pc[p] = "idle"} # {}

\* ------------------------------------------------------------------ Next
Next ==
    \E p \in Clients :
        \/ StartSKURead(p)
        \/ StartSKUCreate(p)
        \/ StartSKUConflict(p)
        \/ StartSKUExists(p)
        \/ \E name \in AddNames, sku \in AddSKUs : AddItem(p, name, sku)
        \/ TxBody(p)
        \/ TxGetFails(p)
        \/ TxCommit(p)
        \/ TxConflict(p)
        \/ TxAlreadyExists(p)
        \/ TxCancelled(p)
        \/ \E id \in IDs, name \in Names, sku \in SKUInputs :
               UpdateItem(p, Item(id, name, sku))
        \/ UpdateItemSet(p)
        \/ \E id \in IDs : DeleteItem(p, id)

Spec == Init /\ [][Next]_vars

\* ------------------------------------------------------------- handlers
\* the id of a request path: not a UUID, the first UUID, the first UUID
\* that is new after a preload
ReqIDs == {"1", UUID(1), UUID(PreloadCount + 1)}

\* request bodies: one that does not decode, and items as decoded
Bodies ==
    {[ok |-> FALSE, item |-> NoItem]}
      \cup {[ok |-> TRUE, item |-> Item(id, name, 0)] :
              id \in {"", UUID(1)}, name \in {"", "spoon"}}

\* the SKUs that the sku of a request path may spell
SKURange == (mockStart - 1)..(mockStart + PreloadCount + MaxRequests)

SKUPaths == {"abc", Itoa(mockStart), Itoa(mockStart + PreloadCount + MaxRequests)}

\* strconv.Atoi, on the spellings of SKURange and on what is no number
Atoi(s) ==
    IF \E n \in SKURange : Itoa(n) = s
      THEN [ok |-> TRUE, val |-> CHOOSE n \in SKURange : Itoa(n) = s]
      ELSE [ok |-> FALSE, val |-> 0]

\* errors.Is(err, errNotFound)
IsNotFound(err) == err = "errNotFound"

\* the status each handler answers for the error of its database call
listStatus(err) ==
    IF err # "nil" THEN (IF IsNotFound(err) THEN 404 ELSE 500) ELSE 200

listSKUStatus(err) ==
    IF err # "nil" THEN (IF IsNotFound(err) THEN 404 ELSE 500) ELSE 200

\* faulty variant of getStatus: no case for errNotFound
getStatusNoCase(err) == IF err # "nil" THEN 500 ELSE 200

getStatus(err) ==
    IF err # "nil" THEN (IF IsNotFound(err) THEN 404 ELSE 500) ELSE 200

getSKUStatus(err) ==
    IF err # "nil" THEN (IF IsNotFound(err) THEN 404 ELSE 500) ELSE 200

putStatus(err) ==
    IF err # "nil" THEN (IF IsNotFound(err) THEN 404 ELSE 500) ELSE 200

\* add writes 500 and does not return: the 201 it writes next is dropped
\* The http.ResponseWriter of a request, as far as add uses it: the status
\* sent (0 while the header is unsent), whether the header sent carries
\* Location, and the parts written to the body.
NewWriter == [status |-> 0, headers |-> {}, location |-> FALSE, body |-> <<>>]

\* w.Header().Set: the header map is sent with the first WriteHeader
HeaderSet(w, key) == [w EXCEPT !.headers = @ \cup {key}]

\* w.WriteHeader: the first call sends status and headers, a later one is dropped
WriteHeader(w, code) ==
    IF w.status # 0 THEN w
    ELSE [w EXCEPT !.status = code, !.location = "Location" \in w.headers]

\* w.Write: sends the header with 200 when none was sent
Write(w, part) == [WriteHeader(w, 200) EXCEPT !.body = Append(@, part)]

\* http.Error(w, msg, code)
httpError(w, code) == Write(WriteHeader(w, code), "error")

\* add from its call of AddItem on, for the error AddItem returned: the error
\* is answered without a return, so the lines for success run in both cases
addWrites(err) ==
    LET w1 == IF err # "nil" THEN httpError(NewWriter, 500) ELSE NewWriter
        w2 == HeaderSet(HeaderSet(w1, "Content-Type"), "Location")
    IN  Write(WriteHeader(w2, 201), "item")

addStatus(err) == addWrites(err).status

dropStatus(err) == IF err # "nil" THEN 500 ELSE 200

\* faulty variant of Invalid: the name is not looked at
InvalidUndecoded(body) == ~body.ok

\* err != nil || item.Name == "" of add and put
Invalid(body) == ~body.ok \/ body.item.Name = ""

\* the name a request asks to store: "-" when it carries none that decodes
ReqName(body) == IF body.ok THEN body.item.Name ELSE "-"

\* location and body are followed for the answers of add
Reply(op, name, err, status) ==
    [n |-> resp.n + 1, op |-> op, name |-> name, err |-> err, status |-> status,
     location |-> FALSE, body |-> <<>>]

\* d.preload() of the tests, before any request is served
Preload ==
    /\ resp.n = 0
    /\ mock.adds = 0
    /\ mock' \in mockDB_preload(mock)
    /\ UNCHANGED <<resp, dbVars>>

list ==
    /\ resp.n < MaxRequests
    /\ LET r == mockDB_ListItems(mock) IN
         resp' = Reply("list", "-", r.err, listStatus(r.err))
    /\ UNCHANGED <<mock, dbVars>>

listSKU ==
    /\ resp.n < MaxRequests
    /\ LET r == mockDB_ListSKUs(mock) IN
         resp' = Reply("listSKU", "-", r.err, listSKUStatus(r.err))
    /\ UNCHANGED <<mock, dbVars>>

add(body) ==
    /\ resp.n < MaxRequests
    /\ IF Invalid(body)
         THEN /\ resp' = [Reply("add", ReqName(body), "none", 400)
                            EXCEPT !.body = httpError(NewWriter, 400).body]
              /\ mock' = mock
       ELSE IF body.item.ID # ""
         THEN /\ resp' = [Reply("add", ReqName(body), "none", 409)
                            EXCEPT !.body = httpError(NewWriter, 409).body]
              /\ mock' = mock
       ELSE LET r == mockDB_AddItem(mock, body.item, Fresh(mock)) IN
              /\ resp' = [Reply("add", ReqName(body), r.err, addStatus(r.err))
                            EXCEPT !.location = addWrites(r.err).location,
                                   !.body = addWrites(r.err).body]
              /\ mock' = r.mock
    /\ UNCHANGED dbVars

get(id) ==
    /\ resp.n < MaxRequests
    /\ LET r == mockDB_GetItem(mock, id) IN
         resp' = Reply("get", "-", r.err, getStatus(r.err))
    /\ UNCHANGED <<mock, dbVars>>

getSKU(s) ==
    /\ resp.n < MaxRequests
    /\ LET sku == Atoi(s) IN
         IF ~sku.ok
           THEN resp' = Reply("getSKU", "-", "none", 400)
           ELSE LET r == mockDB_GetItemBySKU(mock, sku.val) IN
                  resp' = Reply("getSKU", "-", r.err, getSKUStatus(r.err))
    /\ UNCHANGED <<mock, dbVars>>

put(id, body) ==
    /\ resp.n < MaxRequests
    /\ IF Invalid(body)
         THEN resp' = Reply("put", ReqName(body), "none", 400) /\ mock' = mock
         ELSE LET r == mockDB_UpdateItem(mock, [body.item EXCEPT !.ID = id]) IN
                /\ resp' = Reply("put", ReqName(body), r.err, putStatus(r.err))
                /\ mock' = r.mock
    /\ UNCHANGED dbVars

drop(id) ==
    /\ resp.n < MaxRequests
    /\ LET r == mockDB_DeleteItem(mock, id) IN
         /\ resp' = Reply("drop", "-", r.err, dropStatus(r.err))
         /\ mock' = r.mock
    /\ UNCHANGED dbVars

\* the GraphQL resolver: status 0, the answer is an item or an error
CreateItem(name) ==
    /\ resp.n < MaxRequests
    /\ IF name = ""
         THEN resp' = Reply("CreateItem", name, "none", 0) /\ mock' = mock
         ELSE LET r == mockDB_AddItem(mock, Item("", name, 0), Fresh(mock)) IN
                /\ resp' = Reply("CreateItem", name, r.err, 0)
                /\ mock' = r.mock
    /\ UNCHANGED dbVars

MockInit ==
    /\ counter = NoCounter
    /\ data = [k \in IDs |-> Absent]
    /\ mock \in {NewMock(FALSE), NewMock(TRUE)}
    /\ resp = NoResp
    /\ Idle

MockNext ==
    \/ Preload
    \/ list
    \/ listSKU
    \/ \E body \in Bodies : add(body)
    \/ \E id \in ReqIDs : get(id)
    \/ \E s \in SKUPaths : getSKU(s)
    \/ \E id \in ReqIDs, body \in Bodies : put(id, body)
    \/ \E id \in ReqIDs : drop(id)
    \/ \E name \in {"", "spoon"} : CreateItem(name)

MockSpec == MockInit /\ [][MockNext]_vars

\* --------------------------------------------------------------- queries
\* The read methods on a collection that other writers have filled: each
\* document is absent, an item, or fields that do not decode into an Item.
StoredSKUs == {startSKU, startSKU + 1}

StoredDocs(id) ==
    {Absent}
      \cup {[ToDoc(Item(id, "spoon", sku)) EXCEPT !.bad = b] :
              sku \in StoredSKUs, b \in BOOLEAN}

\* the answer of a read method: the method, its argument, what it returned
Answer(op, arg, out) == [n |-> 1, op |-> op, arg |-> arg, out |-> out]

QueryGetItem(id) ==
    /\ resp' = Answer("GetItem", id, GetItem(data, id))
    /\ UNCHANGED <<mock, dbVars>>

QueryGetItemBySKU(sku) ==
    /\ resp' = Answer("GetItemBySKU", Itoa(sku), GetItemBySKU(data, sku))
    /\ UNCHANGED <<mock, dbVars>>

QueryListItems ==
    /\ resp' = Answer("ListItems", "", ListItems(data))
    /\ UNCHANGED <<mock, dbVars>>

QueryListSKUs ==
    /\ resp' = Answer("ListSKUs", "", ListSKUs(data))
    /\ UNCHANGED <<mock, dbVars>>

QueryInit ==
    /\ counter = [BadCounter EXCEPT !.isInt = TRUE, !.next = startSKU + 2]
    /\ data \in {d \in [IDs -> UNION {StoredDocs(id) : id \in IDs}] :
                   \A id \in IDs : d[id] \in StoredDocs(id)}
    /\ mock = NewMock(FALSE)
    /\ resp = NoResp
    /\ Idle

QueryNext ==
    \/ \E id \in IDs : QueryGetItem(id)
    \/ \E sku \in StoredSKUs : QueryGetItemBySKU(sku)
    \/ QueryListItems
    \/ QueryListSKUs

QuerySpec == QueryInit /\ [][QueryNext]_vars

\* ------------------------------------------------- the mock and the client
\* The same calls made, one at a time, on a client over an empty store and on
\* a new mock.  A client that runs alone meets no conflict: each method is
\* its steps above run to the end.

\* AddItem: the loop ends with an identifier that is not stored, the
\* transaction reads next, stores the item with it and writes next + 1
Client_AddItem(d, cnt, i, id) ==
    [data |-> [d EXCEPT ![id] = ToDoc(Item(id, i.Name, getNext(cnt).val))],
     counter |-> [cnt EXCEPT !.next = NextUpdate(getNext(cnt).val), !.ver = @ + 1],
     err |-> "nil"]

Client_UpdateItem(d, i) ==
    IF ~d[i.ID].exists
      THEN [data |-> d, err |-> "errNotFound"]
      ELSE [data |-> [d EXCEPT ![i.ID] = ToDoc(i)], err |-> "nil"]

Client_DeleteItem(d, id) == [data |-> [d EXCEPT ![id] = Absent], err |-> "nil"]

\* the kind of outcome of a call
Kind(err) ==
    IF err = "nil" THEN "success"
    ELSE IF IsNotFound(err) THEN "not-found"
    ELSE "other error"

\* the outcome of one call on the client and on the mock
Both(op, clientErr, mockErr) ==
    [n |-> resp.n + 1, op |-> op, client |-> Kind(clientErr),
     mock |-> Kind(mockErr)]

\* the items passed to AddItem: a new one, and one that carries an ID
AddInputs == {Item("", "spoon", 0), Item("a", "spoon", 0)}

\* the identifiers that neither store holds: both draw the same one
Unused == {id \in IDs : ~data[id].exists /\ id \notin DOMAIN mock.data}

BothAddItem(i, id) ==
    /\ resp.n < MaxRequests
    /\ id \in Unused
    /\ LET c == Client_AddItem(data, counter, i, id)
           m == mockDB_AddItem(mock, i, id)
       IN  /\ data' = c.data
           /\ counter' = c.counter
           /\ mock' = m.mock
           /\ resp' = Both("AddItem", c.err, m.err)
    /\ UNCHANGED <<pc, item, item0, ref, txRead, txNext, txDoc, attempts,
                   txErr, res, log, nCalls>>

BothGetItem(id) ==
    /\ resp.n < MaxRequests
    /\ resp' = Both("GetItem", GetItem(data, id).err, mockDB_GetItem(mock, id).err)
    /\ UNCHANGED <<mock, dbVars>>

BothGetItemBySKU(sku) ==
    /\ resp.n < MaxRequests
    /\ resp' = Both("GetItemBySKU", GetItemBySKU(data, sku).err,
                     mockDB_GetItemBySKU(mock, sku).err)
    /\ UNCHANGED <<mock, dbVars>>

BothListSKUs ==
    /\ resp.n < MaxRequests
    /\ resp' = Both("ListSKUs", ListSKUs(data).err, mockDB_ListSKUs(mock).err)
    /\ UNCHANGED <<mock, dbVars>>

BothUpdateItem(i) ==
    /\ resp.n < MaxRequests
    /\ LET c == Client_UpdateItem(data, i)
           m == mockDB_UpdateItem(mock, i)
       IN  /\ data' = c.data
           /\ mock' = m.mock
           /\ resp' = Both("UpdateItem", c.err, m.err)
    /\ UNCHANGED <<counter, pc, item, item0, ref, txRead, txNext, txDoc,
                   attempts, txErr, res, log, nCalls>>

BothDeleteItem(id) ==
    /\ resp.n < MaxRequests
    /\ LET c == Client_DeleteItem(data, id)
           m == mockDB_DeleteItem(mock, id)
       IN  /\ data' = c.data
           /\ mock' = m.mock
           /\ resp' = Both("DeleteItem", c.err, m.err)
    /\ UNCHANGED <<counter, pc, item, item0, ref, txRead, txNext, txDoc,
                   attempts, txErr, res, log, nCalls>>

\* NewClient has seeded the counter of the empty store; the mock is new
BothInit ==
    /\ counter = [BadCounter EXCEPT !.isInt = TRUE, !.next = startSKU]
    /\ data = [k \in IDs |-> Absent]
    /\ mock = NewMock(FALSE)
    /\ resp = NoResp
    /\ Idle

BothNext ==
    \/ \E i \in AddInputs, id \in IDs : BothAddItem(i, id)
    \/ \E id \in IDs : BothGetItem(id)
    \/ \E sku \in StoredSKUs : BothGetItemBySKU(sku)
    \/ BothListSKUs
    \/ \E id \in IDs, name \in Names, sku \in SKUInputs :
         BothUpdateItem(Item(id, name, sku))
    \/ \E id \in IDs : BothDeleteItem(id)

BothSpec == BothInit /\ [][BothNext]_vars

\* -------------------------------------------------------------- fairness
\* the collision retry of AddItem draws an identifier that is not stored
DrawsFree(p) == TxAlreadyExists(p) /\ ~data[ref'[p]].exists

\* A call of AddItem that has started keeps running: the body runs, and the
\* store answers the commit (applied, aborted or refused); and a generator
\* that can yield an identifier not stored eventually does.
LiveSpec ==
    /\ Spec
    /\ \A p \in Clients :
         /\ WF_vars(TxBody(p) \/ TxCommit(p) \/ TxConflict(p)
                      \/ TxAlreadyExists(p))
         /\ SF_vars(DrawsFree(p))

\* ================================================================ claims
Commits == 1..Len(log)

LogSKUs == {log[k].sku : k \in Commits}

\* p's last finished call is an AddItem that returned no error
AddOk(p) == pc[p] = "idle" /\ res[p].op = "add" /\ res[p].err = "nil"

\* p's last finished call is an AddItem that returned an error
AddFailed(p) == pc[p] = "idle" /\ res[p].op = "add" /\ res[p].err # "nil"

InAdd(p) == pc[p] \in {"add_body", "add_commit"}

\* C1: no two records stored in the data collection have the same SKU, after
\* any interleaving of AddItem, UpdateItem and DeleteItem.  (Violated:
\* UpdateItem writes the SKU field of the caller's item over the record.)
C1_StoredSKUsDistinct ==
    \A a, b \in IDs :
        (a # b /\ data[a].exists /\ data[b].exists) => data[a].sku # data[b].sku

\* C2: no two committed AddItem transactions read the same value of the
\* counter's next, and no two successful AddItem calls are assigned the same
\* SKU.
C2_NoSharedCounterRead ==
    /\ \A j, k \in Commits :
         j # k => (log[j].read # log[k].read /\ log[j].sku # log[k].sku)
    /\ \A p, q \in Clients :
         (p # q /\ AddOk(p) /\ AddOk(q)) => item[p].SKU # item[q].SKU

\* two transactions have committed, one of them after a conflict and a re-run
C2_Witness == Len(log) >= 2 /\ \E k \in Commits : log[k].attempt >= 2

\* C3: once the counter is seeded, next = 1 + the maximum SKU assigned by a
\* committed AddItem, or 1000 when none has committed; attempts that were
\* aborted, failed or collided have not advanced it.
C3_NextIsMaxPlusOne ==
    (counter.exists /\ counter.isInt) =>
        counter.next = IF Len(log) = 0 THEN startSKU ELSE 1 + Max(LogSKUs)

\* a commit has happened, and an AddItem has failed since the store was seeded
C3_Witness == Len(log) >= 1 /\ \E p \in Clients : AddFailed(p)

C5_ContiguousBlock ==
    /\ LogSKUs = startSKU..(startSKU + Len(log) - 1)
    /\ \A p \in Clients :
         AddOk(p) => \E k \in Commits :
                        log[k].id = res[p].id /\ log[k].sku = item[p].SKU
    /\ \A p, q \in Clients :
         (p # q /\ AddOk(p) /\ AddOk(q) /\ Len(log) = 2) =>
             {item[p].SKU, item[q].SKU} = {startSKU, startSKU + 1}

\* two clients have each added one item to the fresh store; the client that
\* committed second was re-run after a conflict
C5_Witness ==
    /\ Len(log) = 2
    /\ log[2].attempt = 2
    /\ \E p, q \in Clients :
         /\ p # q /\ AddOk(p) /\ AddOk(q)
         /\ item[p].SKU = startSKU /\ item[q].SKU = startSKU + 1

\* an AddItem transaction attempt of p ends without committing: AddItem
\* returns an error, or the body is to be run again (conflict or collision)
FailedAttempt(p) ==
    /\ InAdd(p)
    /\ \/ pc'[p] = "idle" /\ res'[p].err # "nil"
       \/ pc[p] = "add_commit" /\ pc'[p] = "add_body"

\* C6: counter increment and record insert are applied together or not at
\* all: the increments applied to the counter equal the records ever
\* inserted, and an attempt that ends in an error, an abort or a cancellation
\* leaves the counter document and the data collection as they were.
C6_AtomicCommit ==
    [][/\ (counter'.exists /\ counter'.isInt) =>
              counter'.next - startSKU = Len(log')
       /\ \A p \in Clients :
            FailedAttempt(p) => (counter' = counter /\ data' = data)]_vars

\* an AddItem was cancelled at commit after another one had committed
C6_Witness ==
    Len(log) >= 1 /\ \E p \in Clients : AddFailed(p) /\ res[p].err = "Canceled"

\* C7: on AlreadyExists AddItem draws an identifier again and runs the whole
\* transaction again; it never returns AlreadyExists; the collided attempt
\* leaves the counter as it was.
C7_CollisionRetried ==
    [][\A p \in Clients :
         /\ (res'[p].op = "add") => res'[p].err # "AlreadyExists"
         /\ (InAdd(p) /\ txErr'[p] = "AlreadyExists" /\ txErr[p] # "AlreadyExists")
              => /\ pc'[p] = "add_body"
                 /\ attempts'[p] = 0
                 /\ ref'[p] \in IDs /\ item'[p].ID = ref'[p]
                 /\ res'[p] = res[p]
                 /\ counter' = counter /\ data' = data /\ log' = log]_vars

\* an AddItem has collided and drawn an identifier that names no record
C7_Witness ==
    \E p \in Clients :
        /\ pc[p] = "add_body" /\ txErr[p] = "AlreadyExists" /\ attempts[p] = 0
        /\ ~data[ref[p]].exists

\* C8: a re-run of the transaction body after a conflict uses the identifier
\* of the aborted attempt; the identifier of a call changes only when create
\* has returned AlreadyExists.
C8_ConflictKeepsID ==
    [][\A p \in Clients :
         /\ (pc[p] = "add_commit" /\ pc'[p] = "add_body"
               /\ txErr'[p] # "AlreadyExists")
              => (ref'[p] = ref[p] /\ item'[p].ID = item[p].ID)
         /\ (InAdd(p) /\ InAdd(p)' /\ ref'[p] # ref[p])
              => (pc[p] = "add_commit" /\ txErr'[p] = "AlreadyExists")]_vars

\* a transaction body is about to be run again after a conflict
C8_Witness ==
    \E p \in Clients :
        pc[p] = "add_body" /\ attempts[p] >= 1 /\ txErr[p] = "nil"

\* C9: when create returns an error other than AlreadyExists, AddItem returns
\* that error with an empty identifier and starts no other transaction.
C9_OtherErrorsReturned ==
    [][\A p \in Clients :
         (InAdd(p) /\ txErr'[p] \notin {"nil", "AlreadyExists"})
           => /\ pc'[p] = "idle"
              /\ res'[p] = [op |-> "add", id |-> "", err |-> txErr'[p]]
              /\ counter' = counter /\ data' = data]_vars

\* an AddItem has returned Aborted after MaxAttempts conflicting attempts
C9_Witness ==
    \E p \in Clients : AddFailed(p) /\ res[p].err = "Aborted" /\ res[p].id = ""

\* C10: while a transaction attempt of AddItem is uncommitted, and after
\* AddItem has returned an error, the caller's item has the ID and SKU it had
\* when AddItem was called.  (Violated: AddItem writes the UUID into the item
\* before the transaction, and the closure writes the SKU before the commit.)
C10_CallerItemUntouched ==
    \A p \in Clients :
        (InAdd(p) \/ AddFailed(p)) =>
            (item[p].ID = item0[p].ID /\ item[p].SKU = item0[p].SKU)

\* C11: a SKU is never reused: the SKU a committing AddItem assigns to its
\* record differs from every SKU assigned before, also to records that have
\* been deleted since.
C11_SKUNeverReused ==
    [][Len(log') = Len(log) + 1 =>
         LET e == log'[Len(log')] IN
           /\ e.sku \notin LogSKUs
           /\ data'[e.id].sku = e.sku]_vars

\* a record was added and deleted, and its identifier was drawn again by a
\* later AddItem, whose record has the next SKU
C11_Witness ==
    /\ Len(log) = 2
    /\ log[1].id = log[2].id
    /\ data[log[2].id].exists
    /\ data[log[2].id].sku = startSKU + 1

\* C12: UpdateItem on an existing record never changes that record's stored
\* id or stored SKU: the write of an update leaves both as they were, whatever
\* the caller's item carries.
C12_UpdateKeepsIdentity ==
    [][\A p \in Clients :
         (pc[p] = "upd_set" /\ pc'[p] = "idle" /\ data[item[p].ID].exists) =>
           /\ data'[item[p].ID].id = data[item[p].ID].id
           /\ data'[item[p].ID].sku = data[item[p].ID].sku]_vars

\* C13: UpdateItem with an id for which no record is stored returns the
\* not-found error and changes neither the data collection nor the counter;
\* it goes on to write only when the record is stored, and then the write
\* replaces the record's contents with the caller's item and returns no error.
C13_UpdateRequiresRecord ==
    [][\A p \in Clients :
         /\ (pc[p] = "idle" /\ pc'[p] = "idle" /\ nCalls' = nCalls + 1
               /\ res'[p].op = "update" /\ res'[p] # res[p]) =>
              /\ res'[p].err = "errNotFound"
              /\ \E id \in IDs : ~data[id].exists
              /\ data' = data
              /\ counter' = counter
         /\ (pc[p] = "idle" /\ pc'[p] = "upd_set") =>
              /\ data[item'[p].ID].exists
              /\ data' = data
              /\ counter' = counter
         /\ (pc[p] = "upd_set" /\ pc'[p] = "idle") =>
              /\ data' = [data EXCEPT ![item[p].ID] = ToDoc(item[p])]
              /\ res'[p] = [op |-> "update", id |-> "", err |-> "nil"]
              /\ counter' = counter]_vars

\* one update replaced the contents of the stored record, and an update of
\* the identifier that is not stored was answered with not-found
C13_Witness ==
    /\ Len(log) = 1
    /\ data[log[1].id].exists
    /\ data[log[1].id].name = "spork"
    /\ Cardinality({id \in IDs : data[id].exists}) = 1
    /\ \E p, q \in Clients :
         /\ res[p] = [op |-> "update", id |-> "", err |-> "errNotFound"]
         /\ res[q] = [op |-> "update", id |-> "", err |-> "nil"]

\* C14: DeleteItem is idempotent: every DeleteItem returns no error and
\* leaves the counter alone; it removes at most the record with the given id,
\* changes nothing when that record is not stored, and deleting the same id
\* again in the state it leaves changes nothing more.
C14_DeleteIdempotent ==
    [][\A p \in Clients :
         (pc[p] = "idle" /\ nCalls' = nCalls + 1
            /\ res'[p].op = "delete" /\ res'[p] # res[p]) =>
           /\ res'[p].err = "nil"
           /\ counter' = counter
           /\ \E id \in IDs :
                /\ data' = [data EXCEPT ![id] = Absent]
                /\ ~data[id].exists => data' = data
                /\ [data' EXCEPT ![id] = Absent] = data']_vars

\* a record was added and then two clients each completed a DeleteItem with
\* no error; nothing is stored
C14_Witness ==
    /\ Len(log) = 1
    /\ nCalls = 3
    /\ \A id \in IDs : ~data[id].exists
    /\ \E p, q \in Clients :
         /\ p # q
         /\ res[p] = [op |-> "delete", id |-> "", err |-> "nil"]
         /\ res[q] = [op |-> "delete", id |-> "", err |-> "nil"]

StoredIDs == {id \in IDs : data[id].exists}

\* C15: GetItem(id) returns an error wrapping the not-found error exactly
\* when no record with key id is stored, and otherwise the stored record with
\* no error.
C15_GetItemContract ==
    \A id \in IDs :
      LET r == GetItem(data, id) IN
        /\ r.err = "errNotFound" <=> ~data[id].exists
        /\ data[id].exists =>
             /\ r.err = "nil"
             /\ r.item = Item(id, data[id].name, data[id].sku)

\* one record is stored, under an SKU that AddItem assigned, and the other
\* identifier is not: GetItem answers the record for the one and not-found
\* for the other
C15_Witness ==
    /\ Len(log) >= 1
    /\ \E id, other \in IDs :
         /\ data[id].exists /\ data[id].sku = startSKU
         /\ GetItem(data, id).item = Item(id, data[id].name, startSKU)
         /\ ~data[other].exists
         /\ GetItem(data, other).err = "errNotFound"
    /\ HasClient

\* C16: GetItemBySKU(sku) returns a not-found error exactly when no stored
\* record has that SKU, and otherwise a stored record whose SKU is the
\* argument.
C16_GetItemBySKUContract ==
    \A sku \in SKUQueries :
      LET r == GetItemBySKU(data, sku) IN
        /\ r.err = "errNotFound" <=> ~\E id \in StoredIDs : data[id].sku = sku
        /\ r.err # "errNotFound" =>
             /\ r.err = "nil"
             /\ r.item.SKU = sku
             /\ r.item.ID \in StoredIDs
             /\ r.item = FromDoc(data[r.item.ID])

\* two records are stored under different SKUs: the query for the larger SKU
\* answers the record that has it, the query for an unassigned SKU not-found
C16_Witness ==
    /\ Cardinality(StoredIDs) = 2
    /\ \E id, other \in StoredIDs :
         /\ data[other].sku < data[id].sku
         /\ GetItemBySKU(data, data[id].sku).item.ID = id
    /\ GetItemBySKU(data, startSKU + 2).err = "errNotFound"
    /\ HasClient

\* C17: ListSKUs returns a map with exactly one entry per stored record,
\* mapping the decimal string of that record's SKU to that record's id.
C17_ListSKUsOnePerRecord ==
    LET m == ListSKUs(data).skus IN
      /\ ListSKUs(data).err = "nil"
      /\ Cardinality(DOMAIN m) = Cardinality(StoredIDs)
      /\ \A id \in StoredIDs :
           /\ Itoa(data[id].sku) \in DOMAIN m
           /\ m[Itoa(data[id].sku)] = id

\* C18: ListItems returns every stored record exactly once, in ascending
\* order of id, and never an error: on an empty data collection the list is
\* empty.
C18_ListItemsOrdered ==
    LET l == ListItems(data) IN
      /\ l.err = "nil"
      /\ Len(l.items) = Cardinality(StoredIDs)
      /\ \A id \in StoredIDs :
           \E k \in 1..Len(l.items) : l.items[k] = FromDoc(data[id])
      /\ \A j, k \in 1..Len(l.items) :
           j < k => Rank(l.items[j].ID) < Rank(l.items[k].ID)
      /\ StoredIDs = {} => l.items = <<>>

\* record b was added before record a and both are stored: the list has a
\* first
C18_Witness ==
    /\ Len(log) = 2
    /\ log[1].id = "b" /\ log[2].id = "a"
    /\ StoredIDs = IDs
    /\ ListItems(data).items[1].ID = "a"
    /\ ListItems(data).items[2].ID = "b"
    /\ HasClient

\* C19: startSKU is idempotent: a step of startSKU creates the counter with
\* next = startSKU only when the counter document is absent, and when the
\* document is present it writes nothing, also after AddItem calls have
\* advanced the counter; it returns no error on a present integer counter.
C19_StartSKUIdempotent ==
    [][\A p \in Clients :
         (pc[p] \in {"new", "start_commit"} /\ pc'[p] # pc[p]) =>
           /\ counter.exists => counter' = counter
           /\ counter' # counter =>
                /\ ~counter.exists
                /\ counter'.exists /\ counter'.hasNext /\ counter'.isInt
                /\ counter'.next = startSKU
           /\ (pc[p] = "new" /\ counter.exists /\ counter.isInt) =>
                /\ pc'[p] = "idle"
                /\ res'[p] = [op |-> "new", id |-> "", err |-> "nil"]
           /\ (pc[p] = "start_commit" /\ pc'[p] = "idle") =>
                /\ counter' # counter
                /\ res'[p] = [op |-> "new", id |-> "", err |-> "nil"]]_vars

\* the counter has been advanced by an AddItem, and a client whose startSKU
\* found the counter present has been returned with no error
C19_Witness ==
    /\ Len(log) >= 1
    /\ counter.next = startSKU + Len(log)
    /\ \E p, q \in Clients :
         /\ p # q
         /\ pc[p] = "idle" /\ res[p] = [op |-> "new", id |-> "", err |-> "nil"]
         /\ AddOk(q)

\* C20: when the counter document exists but its next field is missing or is
\* not an integer, startSKU returns an error, NewClient returns that error
\* and no client, and the counter document is left as it is.
C20_MalformedCounterFatal ==
    [][(counter.exists /\ ~counter.isInt) =>
         /\ counter' = counter
         /\ \A p \in Clients :
              /\ pc'[p] \in {"new", "noclient"}
              /\ pc'[p] # pc[p] =>
                   /\ pc'[p] = "noclient"
                   /\ res'[p].op = "new"
                   /\ res'[p].err = IF counter.hasNext THEN "CantRead"
                                                       ELSE "NoField"]_vars

\* every NewClient has failed on a counter document without a next field,
\* which is still as it was
C20_Witness ==
    /\ counter = EmptyCounter
    /\ \A p \in Clients :
         /\ pc[p] = "noclient"
         /\ res[p] = [op |-> "new", id |-> "", err |-> "NoField"]

\* C21: the counter document is written only by startSKU and by the
\* transaction of AddItem: a step that changes the counter either creates it
\* (startSKU, next = startSKU) or is a commit of AddItem that inserts a record
\* in the same step; steps of UpdateItem and DeleteItem leave it as it is.
C21_CounterOnlyInTransaction ==
    [][/\ counter' # counter =>
            \/ /\ ~counter.exists
               /\ counter'.next = startSKU
               /\ \E p \in Clients : pc[p] = "start_commit" /\ pc'[p] = "idle"
            \/ /\ Len(log') = Len(log) + 1
               /\ LET e == log'[Len(log')] IN
                    /\ ~data[e.id].exists
                    /\ data'[e.id].exists
                    /\ data'[e.id].sku = counter.next
                    /\ counter'.next = counter.next + 1
       /\ (\/ \E p \in Clients : pc[p] = "upd_set" /\ pc'[p] = "idle"
           \/ \E p \in Clients : pc[p] = "idle" /\ pc'[p] = "upd_set"
           \/ (pc' = pc /\ nCalls' = nCalls + 1))
            => counter' = counter]_vars

\* an AddItem has advanced the counter, and an UpdateItem and a DeleteItem
\* have completed after it without moving it
C21_Witness ==
    /\ Len(log) = 1
    /\ nCalls = 3
    /\ counter.next = startSKU + 1
    /\ \E p, q \in Clients :
         /\ res[p] = [op |-> "update", id |-> "", err |-> "nil"]
         /\ res[q] = [op |-> "delete", id |-> "", err |-> "nil"]

\* C22: SKUs follow commit order: of two AddItem calls that succeeded, the
\* one whose transaction committed first has the smaller SKU, whichever of
\* the two started first.
C22_SKUsFollowCommitOrder ==
    \A j, k \in Commits : j < k => log[j].sku < log[k].sku

\* two AddItem calls raced: the second to commit had read the counter before
\* the first committed, was aborted, and committed on its second attempt
C22_Witness ==
    /\ Len(log) = 2
    /\ log[1].attempt = 1
    /\ log[2].attempt = 2
    /\ log[1].sku = startSKU
    /\ log[2].sku = startSKU + 1
    /\ \A p \in Clients : AddOk(p)

\* a read is issued after a write in a sequence of transaction operations
ReadAfterWrite(ops) ==
    \E j, k \in 1..Len(ops) : j < k /\ ops[j].op # "Get" /\ ops[k].op = "Get"

C26_RerunSafe ==
    [][/\ Len(log') = Len(log) + 1 =>
            LET e == log'[Len(log')] IN
              /\ e.read = counter.next
              /\ e.sku = e.read
              /\ data'[e.id].sku = e.read
              /\ counter'.next = counter.next + 1
              /\ \E p \in Clients :
                   /\ pc[p] = "add_commit" /\ pc'[p] = "idle"
                   /\ res'[p] = [op |-> "add", id |-> e.id, err |-> "nil"]
                   /\ item'[p].SKU = e.read
       /\ (\E p \in Clients : pc[p] = "add_commit" /\ pc'[p] = "add_body")
            => (counter' = counter /\ data' = data /\ log' = log)]_vars

\* an AddItem whose first attempt read startSKU and was aborted has committed
\* on its second attempt; its caller sees the SKU that attempt read
C26_Witness ==
    /\ Len(log) = 2
    /\ log[2].attempt = 2
    /\ log[2].read = startSKU + 1
    /\ counter.next = startSKU + 2
    /\ \E p \in Clients :
         /\ AddOk(p)
         /\ res[p].id = log[2].id
         /\ item[p].SKU = startSKU + 1

\* C28: when more than one stored record has the requested SKU,
\* GetItemBySKU returns the first record of the query result (the matching
\* document first in document-id order) with no error.
C28_DuplicateSKUFirstMatch ==
    \A sku \in SKUQueries :
      LET dups == {id \in StoredIDs : data[id].sku = sku}
          r == GetItemBySKU(data, sku)
      IN  Cardinality(dups) > 1 =>
            /\ r.err = "nil"
            /\ r.item.ID \in dups
            /\ \A id \in dups : Rank(r.item.ID) <= Rank(id)
            /\ r.item = FromDoc(data[r.item.ID])

\* both records are stored under SKU startSKU (an update wrote the first
\* record's SKU into the second): the query answers record a
C28_Witness ==
    /\ StoredIDs = IDs
    /\ \A id \in IDs : data[id].sku = startSKU
    /\ data["a"].name # data["b"].name
    /\ GetItemBySKU(data, startSKU) = [item |-> FromDoc(data["a"]), err |-> "nil"]

AllStored == \A id \in IDs : data[id].exists

\* C27: the collision retry of AddItem is not bounded: AddItem returns only
\* with a commit or with an error other than AlreadyExists, and a create
\* refused with AlreadyExists is always followed by another try; so every
\* call of AddItem returns, unless from some point on every identifier the
\* generator can yield is stored.
C27_AddItemReturns ==
    /\ [][\A p \in Clients :
            /\ (InAdd(p) /\ pc'[p] = "idle") =>
                 \/ Len(log') = Len(log) + 1 /\ res'[p].err = "nil"
                 \/ res'[p].err \notin {"nil", "AlreadyExists"}
            /\ (pc[p] = "add_commit" /\ txErr'[p] = "AlreadyExists") =>
                 pc'[p] = "add_body"]_vars
    /\ \A p \in Clients : []<>(~InAdd(p)) \/ <>[]AllStored

\* every identifier is stored and an AddItem is in its retry loop: the create
\* of its last identifier was refused with AlreadyExists
C27_Witness ==
    /\ AllStored
    /\ \E p \in Clients : pc[p] = "add_body" /\ txErr[p] = "AlreadyExists"

\* the SKUs of the items the mock holds
mockSKUs(m) == {m.data[id].SKU : id \in DOMAIN m.data}

\* C24: in the mock database, as long as only preload, AddItem and DeleteItem
\* have changed the map, the stored items have pairwise distinct SKUs, the
\* k-th item ever added got SKU 1000 + k - 1, and after preload alone every
\* SKU lies in 1000..1009; next is set to 1000 only when the map is made and
\* never goes back, also when the map has become empty.
C24_MockSKUsConsecutive ==
    [][
        /\ (~mock'.isNil /\ ~mock'.touched) =>
            /\ mock'.next = mockStart + mock'.adds
            /\ \A a, b \in DOMAIN mock'.data :
                 a # b => mock'.data[a].SKU # mock'.data[b].SKU
            /\ mockSKUs(mock') \subseteq mockStart..(mockStart + mock'.adds - 1)
        /\ (~mock'.touched /\ mock'.adds = mock.adds + 1) =>
            mockStart + mock.adds \in mockSKUs(mock')
        /\ (resp'.n = 0 /\ ~mock'.isNil) =>
            mockSKUs(mock') \subseteq mockStart..(mockStart + PreloadCount)
        /\ ~mock.isNil => (~mock'.isNil /\ mock'.next >= mock.next)
        /\ (mock.isNil /\ ~mock'.isNil) =>
            mock'.next \in {mockStart + 1, mockStart + PreloadCount}
    ]_vars

\* every item was deleted and one more was added, after the SKU 1000
C24_Witness ==
    /\ ~mock.touched
    /\ mock.adds = 2
    /\ mockSKUs(mock) = {mockStart + 1}

\* the errors a database method may return to a handler: those of the mock
\* and those of the client
DBErrors == {"errShouldFail", "errInvalid", "errNotFound", "other"}

\* the status the claim names for the error of a database call
StatusFor(err) == IF IsNotFound(err) THEN 404 ELSE 500

\* C23: list, get, getSKU and put answer a database error that wraps
\* errNotFound with 404 and any other database error with 500; list and get
\* answer 200 when the database call succeeds.
C23_ErrorStatus ==
    /\ \A e \in DBErrors :
         /\ listStatus(e) = StatusFor(e)
         /\ getStatus(e) = StatusFor(e)
         /\ getSKUStatus(e) = StatusFor(e)
         /\ putStatus(e) = StatusFor(e)
    /\ listStatus("nil") = 200 /\ getStatus("nil") = 200
    /\ (resp.op \in {"list", "get", "getSKU", "put"} /\ resp.err \in DBErrors) =>
         resp.status = StatusFor(resp.err)
    /\ (resp.op \in {"list", "get"} /\ resp.err = "nil") => resp.status = 200

\* an unknown id was asked of a loaded mock and of one that fails
C23_Witness ==
    /\ mock.adds = PreloadCount
    /\ resp.op = "get"
    /\ \/ resp.err = "errNotFound" /\ resp.status = 404
       \/ resp.err = "errShouldFail" /\ resp.status = 500

\* C30: after any create and update requests through add, put and the
\* CreateItem resolver every stored record has a non-empty name: a request
\* with an empty name is rejected without a call of AddItem or UpdateItem and
\* leaves the store as it was.
C30_NamesNonEmpty ==
    [][
        /\ \A id \in DOMAIN mock'.data : mock'.data[id].Name # ""
        /\ (/\ resp'.n = resp.n + 1
            /\ resp'.op \in {"add", "put", "CreateItem"}
            /\ resp'.name = "") =>
             /\ resp'.err = "none"
             /\ resp'.status \in {400, 0}
             /\ mock' = mock
    ]_vars

\* an item was added, one was updated, and an add without a name was refused
C30_Witness ==
    /\ mock.adds > PreloadCount
    /\ mock.touched
    /\ resp.op = "add"
    /\ resp.name = ""
    /\ resp.status = 400

\* the stored documents that decode, and the one a lookup by SKU selects
Decodable == {id \in IDs : data[id].exists /\ ~data[id].bad}

Selected(sku) ==
    LET hits == {id \in IDs : data[id].exists /\ data[id].sku = sku} IN
      IF hits = {} THEN {}
      ELSE {CHOOSE id \in hits : \A other \in hits : Rank(id) <= Rank(other)}

\* C29: ListItems and ListSKUs skip a stored document that does not decode:
\* they return no error and exactly the records that decode; GetItem and
\* GetItemBySKU return an error when the document they select does not decode.
C29_DecodeFailures ==
    /\ resp.op = "ListItems" =>
         /\ resp.out.err = "nil"
         /\ Len(resp.out.items) = Cardinality(Decodable)
         /\ {resp.out.items[k] : k \in 1..Len(resp.out.items)}
              = {FromDoc(data[id]) : id \in Decodable}
    /\ resp.op = "ListSKUs" =>
         /\ resp.out.err = "nil"
         /\ DOMAIN resp.out.skus = {Itoa(data[id].sku) : id \in Decodable}
         /\ \A s \in DOMAIN resp.out.skus :
              /\ resp.out.skus[s] \in Decodable
              /\ Itoa(data[resp.out.skus[s]].sku) = s
    /\ \A id \in IDs :
         (resp.op = "GetItem" /\ resp.arg = id /\ data[id].exists) =>
           IF data[id].bad
             THEN resp.out.err = "other" /\ resp.out.item = NoItem
             ELSE resp.out.err = "nil" /\ resp.out.item = FromDoc(data[id])
    /\ \A sku \in StoredSKUs : \A id \in Selected(sku) :
         (resp.op = "GetItemBySKU" /\ resp.arg = Itoa(sku)) =>
           IF data[id].bad
             THEN resp.out.err = "other" /\ resp.out.item = NoItem
             ELSE resp.out.err = "nil" /\ resp.out.item = FromDoc(data[id])

\* the list of a collection that holds an item and a document that does not decode
C29_Witness ==
    /\ resp.op = "ListItems"
    /\ Decodable # {}
    /\ \E id \in IDs : data[id].exists /\ data[id].bad

\* C32: UpdateItem never brings a record into existence, whatever DeleteItem
\* does between its existence check and its write: the write of an UpdateItem
\* whose record was deleted after the check leaves no record with that id.
C32_UpdateNeverCreates ==
    [][\A p \in Clients :
         (/\ pc[p] = "upd_set"
          /\ pc'[p] = "idle"
          /\ ~data[item[p].ID].exists) => ~data'[item[p].ID].exists]_vars

\* C33: the counter's next never decreases, also while clients run startSKU
\* concurrently with each other and with AddItem calls: the counter document
\* is created at most once and is not set back to 1000 once it exists.
C33_CounterNeverDecreases ==
    [][/\ counter.exists => counter'.exists
       /\ counter.isInt => (counter'.isInt /\ counter'.next >= counter.next)
       /\ (counter' # counter /\ counter.exists) =>
            counter'.next = counter.next + 1]_vars

\* a client is about to commit the seed although an AddItem has advanced the
\* counter since that client read it
C33_Witness ==
    /\ counter.isInt
    /\ counter.next > startSKU
    /\ \E p \in Clients : pc[p] = "start_commit"

\* the record of the k-th committed AddItem, as the call left it
Added(k) == Item(log[k].id, "spoon", log[k].sku)

\* At most one call other than the committed AddItem calls has been made, and
\* the record of the k-th is stored as committed: no UpdateItem or DeleteItem
\* has written it.
Untouched(k) ==
    /\ nCalls <= Len(log) + 1
    /\ data[log[k].id] = ToDoc(Added(k))

\* C34: after AddItem returned an id and no error, and while no UpdateItem or
\* DeleteItem for that id has run, GetItem(id) returns the record with that
\* id, the name passed and the SKU left in the caller's item, and
\* GetItemBySKU of that SKU returns the same record.
C34_AddThenGet ==
    \A k \in Commits :
      Untouched(k) =>
        /\ GetItem(data, log[k].id) = [NoOut EXCEPT !.item = Added(k)]
        /\ GetItemBySKU(data, log[k].sku) = [NoOut EXCEPT !.item = Added(k)]

\* C35: every record of the data collection is stored under the key that
\* equals its id field, whether AddItem inserted it or UpdateItem wrote it.
C35_KeyIsID ==
    \A id \in IDs : data[id].exists => data[id].id = id

\* a record inserted by AddItem and a record written by UpdateItem are stored
C35_Witness ==
    /\ \E k \in Commits : data[log[k].id] = ToDoc(Added(k))
    /\ \E id \in IDs : data[id].exists /\ data[id].name = "spork"

\* C36: add produces one outcome per request: when AddItem returns an error
\* only the error response is written, with no Location header, no status 201
\* and no item in the body; status 201 with Location and the item as body is
\* produced only when AddItem succeeded.
C36_AddOneOutcome ==
    resp.op = "add" =>
      /\ resp.err \in DBErrors =>
           /\ resp.status = 500
           /\ ~resp.location
           /\ resp.body = <<"error">>
      /\ resp.status = 201 =>
           /\ resp.err = "nil"
           /\ resp.location
           /\ resp.body = <<"item">>

\* the records each of the two stores holds
ClientRecords == {FromDoc(data[id]) : id \in {k \in IDs : data[k].exists}}

MockRecords == {mock.data[id] : id \in DOMAIN mock.data}

\* C31: the mock behaves like the client: for the same calls from an empty
\* store each call has the same kind of outcome on both (success, not-found,
\* other error) and both hold the same (id, name, SKU) records, the generated
\* ids being drawn alike.
C31_MockLikeClient ==
    /\ resp.n > 0 => resp.client = resp.mock
    /\ ClientRecords = MockRecords

====
